---- MODULE Spec2Model ----
(***************************************************************************)
(* A model of xpublish/routers/zarr.py: the zarr REST accessor of an       *)
(* xarray dataset (metadata assembly and memoization, chunk extraction     *)
(* with edge padding, chunk encoding) and the routes that serve it through *)
(* a process-wide cache.                                                   *)
(*                                                                         *)
(* Strings are sequences of one-character strings, so that str.split,      *)
(* int() and the `in` substring test are computed as Python computes them. *)
(* Optional values (None or a value) are sequences of length 0 or 1.       *)
(* Dicts are functions; a dict literal is written as a record.             *)
(***************************************************************************)
EXTENDS Integers, Sequences, FiniteSets

VARIABLES
    ds,           \* dataset id -> the xarray dataset served under it (read-only)
    _zmetadata,   \* dataset id -> RestZarrAccessor._zmetadata (None or the dict)
    _variables,   \* dataset id -> RestZarrAccessor._variables
    _encoding,    \* dataset id -> RestZarrAccessor._encoding
    cache,        \* the shared cachey.Cache: cache key -> stored response
    resp,         \* the request in service and its response (idle between two)
    call,         \* the last direct get_key call and its result
    memo,         \* an earlier get_key call, kept for comparison
    thr           \* the request threads of the concurrent specification

vars == <<ds, _zmetadata, _variables, _encoding, cache, resp, call, memo, thr>>

(***************************************************************************)
(* Bounds of the model.                                                    *)
(***************************************************************************)
\* The number of responses the shared cache can hold before it evicts.
MaxCacheEntries == 1

(***************************************************************************)
(* Program constants.                                                      *)
(***************************************************************************)
zarr_format == 2
zarr_consolidated_format == 1

array_meta_key == <<".", "z", "a", "r", "r", "a", "y">>
attrs_key == <<".", "z", "a", "t", "t", "r", "s">>
group_meta_key == <<".", "z", "g", "r", "o", "u", "p">>
DIMENSION_KEY == "_ARRAY_DIMENSIONS"
default_compressor == "blosc"

None == <<>>
Some(v) == <<v>>

\* The dict f without key k, and f after f[k] = v.
Without(f, k) == [x \in DOMAIN f \ {k} |-> f[x]]
SetItem(f, k, v) == [x \in DOMAIN f \cup {k} |-> IF x = k THEN v ELSE f[x]]

(***************************************************************************)
(* Python strings: `t in s`, s.split('.'), int(s).                         *)
(***************************************************************************)
IsSubstring(t, s) ==
    \E i \in 0..(Len(s) - Len(t)) : SubSeq(s, i + 1, i + Len(t)) = t

\* The position of the first '.' of s, 0 when it has none.
FirstDot(s) ==
    IF \A i \in 1..Len(s) : s[i] # "." THEN 0
    ELSE CHOOSE k \in 1..Len(s) : s[k] = "." /\ \A j \in 1..(k - 1) : s[j] # "."

RECURSIVE SplitDot(_)
SplitDot(s) ==
    LET SplitAt(i) ==
            IF i = 0 THEN <<s>>
            ELSE <<SubSeq(s, 1, i - 1)>> \o SplitDot(SubSeq(s, i + 1, Len(s)))
    IN  SplitAt(FirstDot(s))

Digits == {"0", "1", "2", "3", "4", "5", "6", "7", "8", "9"}

DigitVal(c) ==
    CASE c = "0" -> 0 [] c = "1" -> 1 [] c = "2" -> 2 [] c = "3" -> 3
      [] c = "4" -> 4 [] c = "5" -> 5 [] c = "6" -> 6 [] c = "7" -> 7
      [] c = "8" -> 8 [] c = "9" -> 9

\* The digits of an int() literal, after an optional sign.
IntBody(p) == IF Len(p) > 0 /\ p[1] \in {"-", "+"} THEN Tail(p) ELSE p

\* int(p) succeeds (no whitespace or underscore occurs in the strings modelled).
IsIntLiteral(p) ==
    LET AllDigits(b) == Len(b) > 0 /\ \A i \in 1..Len(b) : b[i] \in Digits
    IN  AllDigits(IntBody(p))

RECURSIVE DecVal(_)
DecVal(b) ==
    IF Len(b) = 0 THEN 0
    ELSE DecVal(SubSeq(b, 1, Len(b) - 1)) * 10 + DigitVal(b[Len(b)])

IntOf(p) ==
    LET Signed(v) == IF Len(p) > 0 /\ p[1] = "-" THEN 0 - v ELSE v
    IN  Signed(DecVal(IntBody(p)))

\* ikeys = tuple(map(int, chunk_id.split('.'))): ok is FALSE when int() raises.
ParseChunkId(chunk_id) ==
    LET Parse(parts) ==
            IF \A i \in 1..Len(parts) : IsIntLiteral(parts[i])
            THEN [ok |-> TRUE, ikeys |-> [i \in 1..Len(parts) |-> IntOf(parts[i])]]
            ELSE [ok |-> FALSE, ikeys |-> <<>>]
    IN  Parse(SplitDot(chunk_id))

(***************************************************************************)
(* numpy arrays: a shape and the elements in C (row-major) order.          *)
(***************************************************************************)
RECURSIVE Prod(_)
Prod(shape) ==
    IF Len(shape) = 0 THEN 1
    ELSE Prod(SubSeq(shape, 1, Len(shape) - 1)) * shape[Len(shape)]

Min(a, b) == IF a < b THEN a ELSE b

\* The index tuple (0-based) of the k-th element (0-based) in C order.
RECURSIVE Unravel(_, _)
Unravel(k, shape) ==
    IF Len(shape) = 0 THEN <<>>
    ELSE Append(Unravel(k \div shape[Len(shape)], SubSeq(shape, 1, Len(shape) - 1)),
                k % shape[Len(shape)])

RECURSIVE Ravel(_, _)
Ravel(idx, shape) ==
    IF Len(shape) = 0 THEN 0
    ELSE Ravel(SubSeq(idx, 1, Len(shape) - 1), SubSeq(shape, 1, Len(shape) - 1))
             * shape[Len(shape)] + idx[Len(shape)]

NdArray(shape, flat) == [shape |-> shape, flat |-> flat]

ElemAt(a, idx) == a.flat[Ravel(idx, a.shape) + 1]

\* The elements of a from index lo on, as an array of the given shape.
SliceFrom(a, lo, shape) ==
    NdArray(shape,
            [j \in 1..Prod(shape) |->
                LET At(idx) == ElemAt(a, [i \in 1..Len(lo) |-> lo[i] + idx[i]])
                IN  At(Unravel(j - 1, shape))])

\* a[lo[1]:hi[1], ..., lo[n]:hi[n]]
Slice(a, lo, hi) == SliceFrom(a, lo, [i \in 1..Len(lo) |-> hi[i] - lo[i]])

\* idx lies inside an array of the given shape.
Within(idx, shape) == \A i \in 1..Len(shape) : idx[i] < shape[i]

(***************************************************************************)
(* dask arrays: the values, and `chunks`, the block sizes along each       *)
(* dimension.  A numpy array is the values alone.                          *)
(***************************************************************************)
\* The block sizes of a dimension of size S cut into blocks of size c.
BlockSizes(S, c) ==
    [k \in 1..((S + c - 1) \div c) |-> Min(c, S - (k - 1) * c)]

NumpyArray(values) == [kind |-> "numpy", values |-> values, chunks |-> <<>>]

DaskArray(values, chunksize) ==
    [kind |-> "dask", values |-> values,
     chunks |-> [i \in 1..Len(chunksize) |->
                    BlockSizes(values.shape[i], chunksize[i])]]

\* The offset of block k (0-based) in a dimension with the given block sizes.
RECURSIVE BlockOffset(_, _)
BlockOffset(sizes, k) ==
    IF k = 0 THEN 0 ELSE BlockOffset(sizes, k - 1) + sizes[k]

Raise(e) == [err |-> e, data |-> NdArray(<<0>>, <<>>)]
Return(a) == [err |-> "", data |-> a]

\* A block index as dask normalizes it: a negative one counts from the end.
NormalizeIndex(k, nb) == IF k < 0 THEN k + nb ELSE k

\* da.blocks[ikeys] (dask): an index at or beyond the number of blocks, or
\* below minus that number, and more indices than dimensions are IndexErrors;
\* a dimension without an index is taken whole.
BlocksGetitem(da, ikeys) ==
    LET Block(lo) ==
            Slice(da.values, lo,
                  [i \in 1..Len(da.values.shape) |->
                      IF i <= Len(ikeys)
                      THEN lo[i] + da.chunks[i][NormalizeIndex(ikeys[i],
                                                    Len(da.chunks[i])) + 1]
                      ELSE da.values.shape[i]])
    IN  IF Len(ikeys) > Len(da.values.shape) THEN Raise("IndexError")
        ELSE IF \E i \in 1..Len(ikeys) :
                    \/ ikeys[i] >= Len(da.chunks[i])
                    \/ ikeys[i] < 0 - Len(da.chunks[i])
        THEN Raise("IndexError")
        ELSE Return(Block([i \in 1..Len(da.values.shape) |->
                             IF i <= Len(ikeys)
                             THEN BlockOffset(da.chunks[i],
                                      NormalizeIndex(ikeys[i], Len(da.chunks[i])))
                             ELSE 0]))

(***************************************************************************)
(* _get_data_chunk                                                         *)
(***************************************************************************)
\* The values uninitialized memory may hold.
JunkVals == {0, 255}

\* np.empty_like(chunk_data, shape=out_shape): an array whose cells hold
\* whatever the allocation held (junk, one value per cell).
EmptyLike(out_shape, junk) ==
    NdArray(out_shape, [j \in 1..Prod(out_shape) |-> junk[j]])

\* SetSlice with the assignment lost: the allocation is returned as it was.
SetSlice_NothingCopied(new_chunk, chunk_data) ==
    Return(new_chunk)

\* new_chunk[write_slice] = chunk_data, with write_slice the extent of
\* chunk_data: a chunk_data larger than new_chunk along a dimension cannot
\* be broadcast into it (ValueError); the cells outside stay as they were.
SetSlice(new_chunk, chunk_data) ==
    IF \E i \in 1..Len(new_chunk.shape) : chunk_data.shape[i] > new_chunk.shape[i]
    THEN Raise("ValueError")
    ELSE Return(NdArray(new_chunk.shape,
            [j \in 1..Len(new_chunk.flat) |->
                LET Cell(idx) == IF Within(idx, chunk_data.shape)
                                 THEN ElemAt(chunk_data, idx)
                                 ELSE new_chunk.flat[j]
                IN  Cell(Unravel(j - 1, new_chunk.shape))]))

\* PadToOutShape without the padding: the block as it was materialized.
PadToOutShape_NoPadding(chunk_data, out_shape, junk) ==
    Return(chunk_data)

\* Lines 131-138: pad to out_shape when the shapes differ.
PadToOutShape(chunk_data, out_shape, junk) ==
    IF chunk_data.shape # out_shape
    THEN SetSlice(EmptyLike(out_shape, junk), chunk_data)
    ELSE Return(chunk_data)

\* Lines 128-129: chunk_data.compute(), which the backend may fail.
Compute(b, backend) ==
    IF b.err # "" THEN b
    ELSE IF backend = "fail" THEN Raise("ComputeError")
    ELSE b

\* Lines 116-124 on the parsed ikeys.
SelectChunk(da, ikeys, backend) ==
    IF da.kind = "dask"
    THEN Compute(BlocksGetitem(da, ikeys), backend)
    ELSE IF ikeys # [i \in 1..Len(da.values.shape) |-> 0]
    THEN Raise("ValueError")
    ELSE Return(da.values)

\* junk: what a fresh allocation holds; backend: whether the dask
\* computation succeeds ("ok") or raises ("fail").
_get_data_chunk(da, chunk_id, out_shape, junk, backend) ==
    LET Pad(c) == IF c.err # "" THEN c
                  ELSE PadToOutShape(c.data, out_shape, junk)
        Select(p) == IF ~p.ok THEN Raise("ValueError")
                     ELSE Pad(SelectChunk(da, p.ikeys, backend))
    IN  Select(ParseChunkId(chunk_id))

(***************************************************************************)
(* ndarray.tobytes and _encode_chunk                                       *)
(***************************************************************************)
ItemSize(dtype) == CASE dtype = "|u1" -> 1 [] dtype = "<i2" -> 2

RECURSIVE Pow256(_)
Pow256(b) == IF b = 0 THEN 1 ELSE 256 * Pow256(b - 1)

\* data_chunk.tobytes(): the elements in C order, each little-endian.
ToBytes(a, dtype) ==
    [j \in 1..(Len(a.flat) * ItemSize(dtype)) |->
        (a.flat[((j - 1) \div ItemSize(dtype)) + 1]
            \div Pow256((j - 1) % ItemSize(dtype))) % 256]

Buffer(dtype, bytes) == [dtype |-> dtype, bytes |-> bytes]

\* f.encode(chunk) of a numcodecs filter: "delta" stores byte differences,
\* "astype_O" casts to the object dtype.
FilterEncode(f, buf) ==
    CASE f = "delta" ->
            Buffer(buf.dtype,
                   [j \in 1..Len(buf.bytes) |->
                       IF j = 1 THEN buf.bytes[1]
                       ELSE (buf.bytes[j] - buf.bytes[j - 1] + 256) % 256])
      [] f = "astype_O" -> Buffer("object", buf.bytes)

RECURSIVE ApplyFilters(_, _)
ApplyFilters(fs, buf) ==
    IF Len(fs) = 0 THEN buf
    ELSE ApplyFilters(Tail(fs), FilterEncode(Head(fs), buf))

\* compressor.encode(chunk): the codec's header byte, then its body.
CompressorEncode(c, buf) ==
    CASE c = "blosc" -> <<2>> \o buf.bytes
      [] c = "zlib" -> <<120>> \o buf.bytes

\* `if filters:` is false for None and for an empty list.
_encode_chunk(chunk, filters, compressor) ==
    LET Compress(filtered) ==
            IF filtered.dtype = "object"
            THEN [err |-> "RuntimeError", cdata |-> <<>>]
            ELSE IF compressor # "None"
            THEN [err |-> "", cdata |-> CompressorEncode(compressor, filtered)]
            ELSE [err |-> "", cdata |-> filtered.bytes]
    IN  Compress(IF filters # None /\ Len(filters[1]) > 0
                 THEN ApplyFilters(filters[1], chunk) ELSE chunk)

(***************************************************************************)
(* xarray variables and datasets, and the xarray helpers the accessor      *)
(* calls.  An attribute value is [t |-> its Python type, v |-> its text].  *)
(***************************************************************************)
Attr(t, v) == [t |-> t, v |-> v]

Encoding(chunks, compressor, filters, fill) ==
    [chunks |-> chunks, compressor |-> compressor, filters |-> filters,
     fill |-> fill]

Variable(dims, dtype, attrs, encoding, data) ==
    [dims |-> dims, dtype |-> dtype, attrs |-> attrs, encoding |-> encoding,
     data |-> data]

\* encode_zarr_attr_value: numpy values become plain Python ones.
encode_zarr_attr_value(a) ==
    CASE a.t = "ndarray" -> Attr("list", a.v)
      [] a.t = "np.generic" -> Attr("scalar", a.v)
      [] OTHER -> a

\* encode_zarr_variable: the CF encoding of a variable, a new object; a
\* _FillValue of the encoding becomes an attribute of the encoded variable.
encode_zarr_variable(da) ==
    [da EXCEPT !.attrs = IF da.encoding.fill # None
                         THEN SetItem(da.attrs, "_FillValue", da.encoding.fill[1])
                         ELSE da.attrs]

\* tuple([c[0] for c in da.data.chunks]) for dask, da.shape otherwise.
VarChunks(da) ==
    IF da.data.kind = "dask"
    THEN [i \in 1..Len(da.data.chunks) |-> da.data.chunks[i][1]]
    ELSE da.data.values.shape

\* extract_zarr_variable_encoding: the zarr keys of da.encoding; without
\* declared chunks a dask variable gets the chunks of its blocks.
extract_zarr_variable_encoding(da) ==
    [chunks |-> IF da.encoding.chunks = None /\ da.data.kind = "dask"
                THEN Some(VarChunks(da)) ELSE da.encoding.chunks,
     compressor |-> da.encoding.compressor,
     filters |-> da.encoding.filters]

(***************************************************************************)
(* _extract_zattrs, _extract_fill_value, _extract_zarray                   *)
(***************************************************************************)
_extract_zattrs(da) ==
    Without(SetItem([k \in DOMAIN da.attrs |-> encode_zarr_attr_value(da.attrs[k])],
                    DIMENSION_KEY, Attr("list", da.dims)),
            "_FillValue")

\* da.attrs.pop('_FillValue', None), encoded for the dtype: the value and
\* the variable it was popped from.
_extract_fill_value(da, dtype) ==
    [fill_value |-> IF "_FillValue" \in DOMAIN da.attrs
                    THEN Some(da.attrs["_FillValue"].v) ELSE None,
     da |-> [da EXCEPT !.attrs = Without(da.attrs, "_FillValue")]]

\* ChunksValid without the comparison.
ChunksValid_Unchecked(da, chunks) == TRUE

\* The chunk validation of _extract_zarray (lines 77-83).
ChunksValid(da, chunks) == VarChunks(da) = chunks

_extract_zarray(da, encoding, dtype) ==
    LET Meta(fv, chunks) ==
            [err |-> IF ChunksValid(da, chunks) THEN "" ELSE "ValueError",
             meta |-> [compressor |-> IF encoding.compressor = "unset"
                                      THEN default_compressor
                                      ELSE encoding.compressor,
                       filters |-> encoding.filters,
                       chunks |-> chunks,
                       dtype |-> dtype,
                       fill_value |-> fv.fill_value,
                       order |-> "C",
                       shape |-> da.data.values.shape,
                       zarr_format |-> zarr_format],
             da |-> fv.da]
    IN  Meta(_extract_fill_value(da, dtype),
             IF encoding.chunks = None
             THEN da.data.values.shape ELSE encoding.chunks[1])

(***************************************************************************)
(* RestZarrAccessor.  An accessor is [zmetadata, variables, encoding]: the *)
(* three fields of the object attached to a dataset.                       *)
(***************************************************************************)
Accessor(zm, vs, enc) == [zmetadata |-> zm, variables |-> vs, encoding |-> enc]

\* __init__
NewAccessor == Accessor(None, <<>>, <<>>)

\* get_zattrs: the dataset's global attributes.
get_zattrs(obj) == [k \in DOMAIN obj.attrs |-> encode_zarr_attr_value(obj.attrs[k])]

\* Lines 152-154: the dict _get_zmetadata starts from.
NewZmeta(obj) ==
    [zarr_consolidated_format |-> zarr_consolidated_format,
     metadata |-> [zgroup |-> [zarr_format |-> zarr_format],
                   zattrs |-> get_zattrs(obj),
                   vattrs |-> <<>>,
                   varray |-> <<>>]]

\* One iteration of the loop of _get_zmetadata (lines 156-164), on the
\* local dict zmeta and the accessor's tables.
AssembleVariable(obj, key, zmeta, a) ==
    LET Store(encoded_da, enc, za) ==
            [err |-> za.err,
             zmeta |-> [zmeta EXCEPT
                          !.metadata.vattrs =
                              SetItem(@, key, _extract_zattrs(encoded_da)),
                          !.metadata.varray =
                              IF za.err = "" THEN SetItem(@, key, za.meta) ELSE @],
             acc |-> [a EXCEPT !.variables = SetItem(@, key, za.da),
                               !.encoding = SetItem(@, key, enc)]]
        Encoded(encoded_da, enc) ==
            Store(encoded_da, enc,
                  _extract_zarray(encoded_da, enc, encoded_da.dtype))
    IN  Encoded(encode_zarr_variable(obj.vars[key]),
                extract_zarr_variable_encoding(obj.vars[key]))

RECURSIVE AssembleFrom(_, _, _, _)
AssembleFrom(obj, i, zmeta, a) ==
    LET Continue(r) == IF r.err # "" THEN r
                       ELSE AssembleFrom(obj, i + 1, r.zmeta, r.acc)
    IN  IF i > Len(obj.names) THEN [err |-> "", zmeta |-> zmeta, acc |-> a]
        ELSE Continue(AssembleVariable(obj, obj.names[i], zmeta, a))

_get_zmetadata(obj, a) == AssembleFrom(obj, 1, NewZmeta(obj), a)

\* The zmetadata property: assemble and memoize when unset.
zmetadata(obj, a) ==
    LET Memoize(r) ==
            IF r.err # "" THEN [err |-> r.err, acc |-> r.acc, value |-> None]
            ELSE [err |-> "",
                  acc |-> [r.acc EXCEPT !.zmetadata = Some(r.zmeta)],
                  value |-> Some(r.zmeta)]
    IN  IF a.zmetadata = None
        THEN Memoize(_get_zmetadata(obj, a))
        ELSE [err |-> "", acc |-> a, value |-> a.zmetadata]

\* compressor.get_config()
CompressorConfig(c) ==
    CASE c = "blosc" -> "{id: blosc}" [] c = "zlib" -> "{id: zlib}"

\* The loop of zmetadata_json on the deep copy zjson.
ConfigCompressors(zjson) ==
    [zjson EXCEPT !.metadata.varray =
        [k \in DOMAIN zjson.metadata.varray |->
            IF zjson.metadata.varray[k].compressor # "None"
            THEN [zjson.metadata.varray[k] EXCEPT
                     !.compressor = CompressorConfig(@)]
            ELSE zjson.metadata.varray[k]]]

\* zmetadata_json: a deep copy with each compressor replaced by its config.
zmetadata_json(obj, a) ==
    LET Copy(z) == IF z.err # "" THEN z
                   ELSE [z EXCEPT !.value = Some(ConfigCompressors(z.value[1]))]
    IN  Copy(zmetadata(obj, a))

\* get_key: the encoded chunk, with the block it was encoded from.
get_key(obj, a, var, chunk, junk, backend) ==
    LET Fail(e, a2) == [err |-> e, acc |-> a2, echunk |-> <<>>,
                        block |-> NdArray(<<0>>, <<>>)]
        Encoded(z, dc, e) == [err |-> e.err, acc |-> z.acc, echunk |-> e.cdata,
                              block |-> dc.data]
        Encode(z, arr_meta, v, dc) ==
            IF dc.err # "" THEN Fail(dc.err, z.acc)
            ELSE Encoded(z, dc,
                         _encode_chunk(Buffer("uint8", ToBytes(dc.data, v.dtype)),
                                       arr_meta.filters, arr_meta.compressor))
        Extract(z, arr_meta, v) ==
            Encode(z, arr_meta, v,
                   _get_data_chunk(v.data, chunk, arr_meta.chunks, junk, backend))
        Lookup(z) ==
            IF z.err # "" THEN Fail(z.err, z.acc)
            ELSE IF var \notin DOMAIN z.value[1].metadata.varray
            THEN Fail("KeyError", z.acc)
            ELSE IF var \notin DOMAIN z.acc.variables THEN Fail("KeyError", z.acc)
            ELSE Extract(z, z.value[1].metadata.varray[var], z.acc.variables[var])
    IN  Lookup(zmetadata(obj, a))

\* var.data.dtype.name
DtypeName(dtype) == CASE dtype = "|u1" -> "uint8" [] dtype = "<i2" -> "int16"

\* The loop of info (lines 220-227) from the i-th variable on: meta is the
\* memoized metadata dict, which attrs.pop changes in place.
RECURSIVE InfoFrom(_, _, _, _)
InfoFrom(names, i, meta, a) ==
    LET Entry(name, popped, rest) ==
            [rest EXCEPT !.variables =
                SetItem(@, name, [type |-> DtypeName(a.variables[name].dtype),
                                  dimensions |-> a.variables[name].dims,
                                  attributes |-> popped])]
        Pop(name, popped) ==
            Entry(name, popped,
                  InfoFrom(names, i + 1, [meta EXCEPT !.vattrs[name] = popped], a))
    IN  IF i > Len(names) THEN [err |-> "", meta |-> meta, variables |-> <<>>]
        ELSE IF DIMENSION_KEY \notin DOMAIN meta.vattrs[names[i]]
        THEN [err |-> "KeyError", meta |-> meta, variables |-> <<>>]
        ELSE Pop(names[i], Without(meta.vattrs[names[i]], DIMENSION_KEY))

\* The names of self._variables in insertion order.
VariableNames(obj, a) ==
    SelectSeq(obj.names, LAMBDA n : n \in DOMAIN a.variables)

info(obj, a) ==
    LET Result(z, r) ==
            [err |-> r.err,
             acc |-> [z.acc EXCEPT !.zmetadata =
                         Some([z.value[1] EXCEPT !.metadata = r.meta])],
             value |-> IF r.err # "" THEN None
                       ELSE Some([dimensions |-> obj.dims,
                                  variables |-> r.variables,
                                  global_attributes |-> r.meta.zattrs])]
        Loop(z) == IF z.err # "" THEN z
                   ELSE Result(z, InfoFrom(VariableNames(obj, z.acc), 1,
                                           z.value[1].metadata, z.acc))
    IN  Loop(zmetadata(obj, a))

(***************************************************************************)
(* The datasets served.                                                    *)
(***************************************************************************)
DatasetIds == {"A", "B"}

Arange(shape, base) == NdArray(shape, [j \in 1..Prod(shape) |-> base + j - 1])

Dataset(names, vs, attrs, dims) ==
    [names |-> names, vars |-> vs, attrs |-> attrs, dims |-> dims]

NoAttrs == [k \in {} |-> Attr("str", <<>>)]

\* x: 5 int16 elements in dask blocks of 2, uncompressed; y: 2 bytes in
\* memory, with a _FillValue, a delta filter and the default compressor.
DatasetVA ==
    Dataset(<<"x", "y">>,
        [x |-> Variable(<<"t">>, "<i2", [units |-> Attr("str", <<"m">>)],
                        Encoding(Some(<<2>>), "None", None, None),
                        DaskArray(Arange(<<5>>, 300), <<2>>)),
         y |-> Variable(<<"s">>, "|u1", [scale |-> Attr("np.generic", <<"2">>)],
                        Encoding(None, "unset", Some(<<"delta">>),
                                 Some(Attr("scalar", <<"9">>))),
                        NumpyArray(Arange(<<2>>, 7)))],
        [title |-> Attr("str", <<"A">>)],
        [t |-> 5, s |-> 2])

\* x: 3 bytes in dask blocks of 2, chunks left to the blocks, uncompressed;
\* y: 2 bytes in memory behind a filter that yields an object array.
DatasetVB ==
    Dataset(<<"x", "y">>,
        [x |-> Variable(<<"t">>, "|u1", NoAttrs,
                        Encoding(None, "None", Some(<<>>), None),
                        DaskArray(Arange(<<3>>, 20), <<2>>)),
         y |-> Variable(<<"s">>, "|u1", [flags |-> Attr("ndarray", <<"1", "2">>)],
                        Encoding(Some(<<2>>), "zlib", Some(<<"astype_O">>), None),
                        NumpyArray(Arange(<<2>>, 40)))],
        NoAttrs,
        [t |-> 3, s |-> 2])

\* As DatasetVA, but x declares chunks of 1 over dask blocks of 2.
DatasetI1 ==
    [DatasetVA EXCEPT !.vars["x"].encoding.chunks = Some(<<1>>)]

\* As DatasetVA, but the in-memory y declares chunks of 1 for a shape of 2.
DatasetI2 ==
    [DatasetVA EXCEPT !.vars["y"].encoding.chunks = Some(<<1>>)]

ServedDatasets == {DatasetVA, DatasetVB, DatasetI1, DatasetI2}

\* What a call of get_key for var depends on beyond its arguments: the
\* content of a fresh allocation of the chunk's size, and the backend.
JunkFor(obj, var) ==
    IF var \in DOMAIN obj.vars /\ obj.vars[var].data.kind = "dask"
    THEN [1..Prod(VarChunks(obj.vars[var])) -> JunkVals]
    ELSE {<<>>}

BackendsFor(obj, var) ==
    IF var \in DOMAIN obj.vars /\ obj.vars[var].data.kind = "dask"
    THEN {"ok", "fail"} ELSE {"ok"}

(***************************************************************************)
(* The shared cachey.Cache.                                                *)
(***************************************************************************)
\* CacheKey without the chunk.
CacheKey_VarOnly(var, chunk) == <<var, "/">>

\* cache_key = f'{var}/{chunk}'
CacheKey(var, chunk) == <<var, "/">> \o chunk

\* cache.get(key)
CacheGet(c, key) == IF key \in DOMAIN c THEN Some(c[key]) ELSE None

\* cache.put(key, value, cost, nbytes): the caches it may leave.  Whether an
\* entry is kept, and which entries are evicted to make room, depends on
\* the scores cachey computes from cost, size and time.
CachePut(c, key, value) ==
    {[k \in S |-> IF k = key THEN value ELSE c[k]] :
        S \in {T \in SUBSET (DOMAIN c \cup {key}) :
                  Cardinality(T) <= MaxCacheEntries}}

(***************************************************************************)
(* The routes.  resp holds the request in service and what it returns;     *)
(* events lists its calls of cache.get, get_key and cache.put in order.    *)
(***************************************************************************)
Idle ==
    [op |-> "idle", ds |-> "", var |-> "", chunk |-> <<>>, branch |-> "",
     status |-> "", body |-> None, payload |-> <<>>, events |-> <<>>,
     putkey |-> <<>>, putvalue |-> <<>>, putsize |-> 0]

acc(d) == Accessor(_zmetadata[d], _variables[d], _encoding[d])

SetAccessor(d, a) ==
    /\ _zmetadata' = [_zmetadata EXCEPT ![d] = a.zmetadata]
    /\ _variables' = [_variables EXCEPT ![d] = a.variables]
    /\ _encoding' = [_encoding EXCEPT ![d] = a.encoding]

\* json.dumps(zmetadata): a filter object left in the document is not
\* JSON serializable.
JsonDumps(zjson) ==
    IF \E k \in DOMAIN zjson.metadata.varray :
           /\ zjson.metadata.varray[k].filters # None
           /\ Len(zjson.metadata.varray[k].filters[1]) > 0
    THEN "TypeError" ELSE ""

\* What a route returns for the outcome z of an accessor call.
Returned(op, d, z, e, body) ==
    /\ SetAccessor(d, z.acc)
    /\ resp' = [Idle EXCEPT !.op = op, !.ds = d,
                            !.status = IF e = "" THEN "ok" ELSE e,
                            !.body = IF e = "" THEN body ELSE None]
    /\ UNCHANGED <<ds, cache, call, memo, thr>>

\* GET /.zmetadata
get_zmetadata(d) ==
    LET Dump(z) == Returned("zmetadata", d, z,
                            IF z.err # "" THEN z.err ELSE JsonDumps(z.value[1]),
                            z.value)
    IN  /\ resp.op = "idle"
        /\ Dump(zmetadata_json(ds[d], acc(d)))

\* GET /.zgroup
get_zgroup(d) ==
    LET Lookup(z) == Returned("zgroup", d, z, z.err,
                              IF z.err = "" THEN Some(z.value[1].metadata.zgroup)
                              ELSE None)
    IN  /\ resp.op = "idle"
        /\ Lookup(zmetadata(ds[d], acc(d)))

\* GET /.zattrs
get_zattrs_route(d) ==
    LET Lookup(z) == Returned("zattrs", d, z, z.err,
                              IF z.err = "" THEN Some(z.value[1].metadata.zattrs)
                              ELSE None)
    IN  /\ resp.op = "idle"
        /\ Lookup(zmetadata(ds[d], acc(d)))

\* GET /info
info_route(d) ==
    LET Reply(r) == Returned("info", d, r, r.err, r.value)
    IN  /\ resp.op = "idle"
        /\ Reply(info(ds[d], acc(d)))

\* The branch of get_variable_chunk a chunk string takes (lines 276-282).
ChunkBranch(chunk) ==
    IF IsSubstring(array_meta_key, chunk) THEN "zarray"
    ELSE IF IsSubstring(attrs_key, chunk) THEN "zattrs"
    ELSE IF IsSubstring(group_meta_key, chunk) THEN "zgroup"
    ELSE "data"

\* zmetadata['metadata'][f'{var}/{key}'] as the route's response.
MetaLookup(base, table, var) ==
    IF var \in DOMAIN table
    THEN [base EXCEPT !.status = "ok", !.body = Some(table[var])]
    ELSE [base EXCEPT !.status = "KeyError"]

\* GET /{var}/{chunk}
get_variable_chunk(d, var, chunk) ==
    LET Miss(base, cache_key, k) ==
            /\ SetAccessor(d, k.acc)
            /\ IF k.err # ""
               THEN /\ resp' = [base EXCEPT !.status = k.err,
                                            !.events = <<"get", "get_key">>]
                    /\ cache' = cache
               ELSE /\ resp' = [base EXCEPT
                                  !.status = "ok",
                                  !.payload = k.echunk,
                                  !.events = <<"get", "get_key", "put">>,
                                  !.putkey = cache_key,
                                  !.putvalue = k.echunk,
                                  !.putsize = Len(k.echunk)]
                    /\ cache' \in CachePut(cache, cache_key, k.echunk)
        Data(base, z, cache_key, response) ==
            IF response # None
            THEN /\ SetAccessor(d, z.acc)
                 /\ resp' = [base EXCEPT !.status = "ok",
                                         !.payload = response[1],
                                         !.events = <<"get">>]
                 /\ cache' = cache
            ELSE \E junk \in JunkFor(ds[d], var), backend \in BackendsFor(ds[d], var) :
                    Miss([base EXCEPT !.branch = "data"], cache_key,
                         get_key(ds[d], z.acc, var, chunk, junk, backend))
        Meta(z, r) ==
            /\ SetAccessor(d, z.acc)
            /\ resp' = r
            /\ cache' = cache
        Route(base, z, branch) ==
            IF z.err # "" THEN Meta(z, [base EXCEPT !.status = z.err])
            ELSE IF branch = "zarray"
            THEN Meta(z, MetaLookup([base EXCEPT !.branch = branch],
                                    z.value[1].metadata.varray, var))
            ELSE IF branch = "zattrs"
            THEN Meta(z, MetaLookup([base EXCEPT !.branch = branch],
                                    z.value[1].metadata.vattrs, var))
            ELSE IF branch = "zgroup"
            THEN Meta(z, [base EXCEPT !.branch = branch, !.status = "HTTP404"])
            ELSE Data([base EXCEPT !.branch = branch], z, CacheKey(var, chunk),
                      CacheGet(cache, CacheKey(var, chunk)))
    IN  /\ resp.op = "idle"
        /\ UNCHANGED <<ds, call, memo, thr>>
        /\ Route([Idle EXCEPT !.op = "chunk", !.ds = d, !.var = var,
                              !.chunk = chunk],
                 zmetadata(ds[d], acc(d)), ChunkBranch(chunk))

\* The response is sent; the server is ready for the next request.
Respond ==
    /\ resp.op # "idle"
    /\ resp' = Idle
    /\ UNCHANGED <<ds, _zmetadata, _variables, _encoding, cache, call, memo, thr>>

\* The chunk strings and variable names requested.
ChunkIds ==
    { <<"0">>, <<"1">>, <<"2">>, <<"3">>, <<"-", "1">>, <<"0", ".", "0">>,
      <<>>, <<"a">>,
      array_meta_key, attrs_key, group_meta_key,
      <<"0">> \o array_meta_key, <<"0">> \o attrs_key, <<"0">> \o group_meta_key,
      attrs_key \o array_meta_key }

VarNames == {"x", "y", "q"}

NoThreads == <<>>

NoCall ==
    [var |-> "", chunk |-> <<>>, backend |-> "", err |-> "",
     echunk |-> <<>>, block |-> NdArray(<<0>>, <<>>)]

Init ==
    /\ ds \in [DatasetIds -> ServedDatasets]
    /\ _zmetadata = [d \in DatasetIds |-> None]
    /\ _variables = [d \in DatasetIds |-> <<>>]
    /\ _encoding = [d \in DatasetIds |-> <<>>]
    /\ cache = <<>>
    /\ resp = Idle
    /\ call = NoCall
    /\ memo = NoCall
    /\ thr = NoThreads

Next ==
    \/ \E d \in DatasetIds : get_zmetadata(d)
    \/ \E d \in DatasetIds : get_zgroup(d)
    \/ \E d \in DatasetIds : get_zattrs_route(d)
    \/ \E d \in DatasetIds : info_route(d)
    \/ \E d \in DatasetIds, var \in VarNames, chunk \in ChunkIds :
          get_variable_chunk(d, var, chunk)
    \/ Respond

Spec == Init /\ [][Next]_vars

(***************************************************************************)
(* The extractor on its own: get_key called directly on the accessor of    *)
(* dataset "A", with the result of an earlier call kept in memo.           *)
(***************************************************************************)
\* x: 10 int16 elements in dask blocks of 4, no filters, no compressor;
\* y: a scalar (0-dimensional) in memory.
DatasetE1 ==
    Dataset(<<"x", "y">>,
        [x |-> Variable(<<"t">>, "<i2", NoAttrs,
                        Encoding(Some(<<4>>), "None", None, None),
                        DaskArray(Arange(<<10>>, 1000), <<4>>)),
         y |-> Variable(<<>>, "|u1", NoAttrs,
                        Encoding(None, "None", None, None),
                        NumpyArray(Arange(<<>>, 5)))],
        NoAttrs,
        [t |-> 10])

\* x: 3 by 3 bytes in dask blocks of 2 by 2, uncompressed; y: 3 bytes in
\* memory with the default compressor.
DatasetE2 ==
    Dataset(<<"x", "y">>,
        [x |-> Variable(<<"t", "u">>, "|u1", NoAttrs,
                        Encoding(None, "None", Some(<<>>), None),
                        DaskArray(Arange(<<3, 3>>, 10), <<2, 2>>)),
         y |-> Variable(<<"t">>, "|u1", NoAttrs,
                        Encoding(None, "unset", None, None),
                        NumpyArray(Arange(<<3>>, 50)))],
        NoAttrs,
        [t |-> 3, u |-> 3])

\* x: 3 by 2 bytes in dask blocks of 2 by 2 (one block wide), zlib;
\* y: 2 by 2 bytes in memory, uncompressed.
DatasetE3 ==
    Dataset(<<"x", "y">>,
        [x |-> Variable(<<"t", "u">>, "|u1", NoAttrs,
                        Encoding(Some(<<2, 2>>), "zlib", None, None),
                        DaskArray(Arange(<<3, 2>>, 10), <<2, 2>>)),
         y |-> Variable(<<"u", "w">>, "|u1", NoAttrs,
                        Encoding(Some(<<2, 2>>), "None", None, None),
                        NumpyArray(Arange(<<2, 2>>, 60)))],
        NoAttrs,
        [t |-> 3, u |-> 2, w |-> 2])

ExtractDatasets == {DatasetE1, DatasetE2, DatasetE3}

ExtractChunkIds ==
    { <<"0">>, <<"1">>, <<"2">>, <<"3">>, <<"-", "1">>, <<"0", "0">>,
      <<"0", ".", "0">>, <<"0", ".", "1">>, <<"1", ".", "0">>, <<"1", ".", "1">>,
      <<"2", ".", "0">>, <<"0", ".", "-", "1">>, <<"0", ".", "0", ".", "0">>,
      <<>>, <<"a">>, <<"1", ".">> }

\* The caller calls dataset._rest_zarr.get_key(var, chunk) and holds the
\* outcome in call.
CallGetKey(d, var, chunk, junk, backend) ==
    LET Called(k) ==
            /\ SetAccessor(d, k.acc)
            /\ call' = [var |-> var, chunk |-> chunk, backend |-> backend,
                        err |-> IF k.err = "" THEN "ok" ELSE k.err,
                        echunk |-> k.echunk, block |-> k.block]
    IN  /\ call = NoCall
        /\ Called(get_key(ds[d], acc(d), var, chunk, junk, backend))
        /\ UNCHANGED <<ds, cache, resp, memo, thr>>

\* The caller keeps the block and payload of a successful call, to compare
\* a later call with.
Remember ==
    /\ call.err = "ok"
    /\ memo' = call
    /\ call' = NoCall
    /\ UNCHANGED <<ds, _zmetadata, _variables, _encoding, cache, resp, thr>>

\* The caller drops the outcome of the call.
Forget ==
    /\ call # NoCall
    /\ call' = NoCall
    /\ UNCHANGED <<ds, _zmetadata, _variables, _encoding, cache, resp, memo, thr>>

InitExtract ==
    /\ ds \in {[d \in DatasetIds |-> D] : D \in ExtractDatasets}
    /\ _zmetadata = [d \in DatasetIds |-> None]
    /\ _variables = [d \in DatasetIds |-> <<>>]
    /\ _encoding = [d \in DatasetIds |-> <<>>]
    /\ cache = <<>>
    /\ resp = Idle
    /\ call = NoCall
    /\ memo = NoCall
    /\ thr = NoThreads

NextExtract ==
    \/ \E var \in VarNames, chunk \in ExtractChunkIds :
          \E junk \in JunkFor(ds["A"], var), backend \in BackendsFor(ds["A"], var) :
              CallGetKey("A", var, chunk, junk, backend)
    \/ Remember
    \/ Forget

SpecExtract == InitExtract /\ [][NextExtract]_vars

(***************************************************************************)
(* Concurrent first access: request threads on the accessor of dataset     *)
(* "A", each a request that reads the zmetadata property (lines 178-180)   *)
(* step by step and then runs the rest of its handler.                     *)
(***************************************************************************)
Threads == {"t1", "t2"}

ThreadOps == {"zmetadata", "info", "get_key"}

IdleThread ==
    [pc |-> "idle", op |-> "", var |-> "", unset |-> FALSE, zmeta |-> None,
     i |-> 0, err |-> "", doc |-> None, echunk |-> <<>>]

\* A request arrives.
Start(t, op, var) ==
    /\ thr[t].pc = "idle"
    /\ thr' = [thr EXCEPT ![t] = [IdleThread EXCEPT !.pc = "check", !.op = op,
                                                    !.var = var]]
    /\ UNCHANGED <<ds, _zmetadata, _variables, _encoding, cache, resp, call, memo>>

\* Line 178: if self._zmetadata is None; lines 152-154 when it is.
CheckMemo(t) ==
    /\ thr[t].pc = "check"
    /\ thr' = [thr EXCEPT ![t] =
                 IF _zmetadata["A"] = None
                 THEN [@ EXCEPT !.pc = "assemble", !.unset = TRUE,
                                !.zmeta = Some(NewZmeta(ds["A"])), !.i = 1]
                 ELSE [@ EXCEPT !.pc = "use"]]
    /\ UNCHANGED <<ds, _zmetadata, _variables, _encoding, cache, resp, call, memo>>

\* One iteration of the loop of _get_zmetadata in thread t.
AssembleStep(t) ==
    LET Stepped(r) ==
            /\ _variables' = [_variables EXCEPT !["A"] = r.acc.variables]
            /\ _encoding' = [_encoding EXCEPT !["A"] = r.acc.encoding]
            /\ thr' = [thr EXCEPT ![t] =
                         IF r.err # ""
                         THEN [@ EXCEPT !.pc = "done", !.err = r.err]
                         ELSE [@ EXCEPT !.zmeta = Some(r.zmeta), !.i = @ + 1]]
    IN  /\ thr[t].pc = "assemble"
        /\ thr[t].i <= Len(ds["A"].names)
        /\ Stepped(AssembleVariable(ds["A"], ds["A"].names[thr[t].i],
                                    thr[t].zmeta[1], acc("A")))
        /\ UNCHANGED <<ds, _zmetadata, cache, resp, call, memo>>

\* Line 179: self._zmetadata = the dict this thread assembled.
StoreMemo(t) ==
    /\ thr[t].pc = "assemble"
    /\ thr[t].i > Len(ds["A"].names)
    /\ _zmetadata' = [_zmetadata EXCEPT !["A"] = thr[t].zmeta]
    /\ thr' = [thr EXCEPT ![t].pc = "use"]
    /\ UNCHANGED <<ds, _variables, _encoding, cache, resp, call, memo>>

\* Line 180 and the rest of the handler, on the memoized dict.
Use(t) ==
    LET Done(r, doc, echunk) ==
            /\ SetAccessor("A", r.acc)
            /\ thr' = [thr EXCEPT ![t] =
                         [@ EXCEPT !.pc = "done",
                                   !.err = IF r.err = "" THEN "ok" ELSE r.err,
                                   !.doc = doc, !.echunk = echunk]]
        Document(z) == Done(z, z.value, <<>>)
        Chunk(k) == Done(k, None, k.echunk)
    IN  /\ thr[t].pc = "use"
        /\ CASE thr[t].op = "zmetadata" ->
                    Document(zmetadata_json(ds["A"], acc("A")))
             [] thr[t].op = "info" ->
                    Document(info(ds["A"], acc("A")))
             [] thr[t].op = "get_key" ->
                    \E junk \in JunkFor(ds["A"], thr[t].var) :
                        Chunk(get_key(ds["A"], acc("A"), thr[t].var, <<"0">>,
                                      junk, "ok"))
        /\ UNCHANGED <<ds, cache, resp, call, memo>>

InitConc ==
    /\ ds \in {[d \in DatasetIds |-> D] : D \in {DatasetVA, DatasetVB}}
    /\ _zmetadata = [d \in DatasetIds |-> None]
    /\ _variables = [d \in DatasetIds |-> <<>>]
    /\ _encoding = [d \in DatasetIds |-> <<>>]
    /\ cache = <<>>
    /\ resp = Idle
    /\ call = NoCall
    /\ memo = NoCall
    /\ thr = [t \in Threads |-> IdleThread]

NextConc ==
    \E t \in Threads :
        \/ \E op \in ThreadOps, var \in {"x", "y"} : Start(t, op, var)
        \/ CheckMemo(t)
        \/ AssembleStep(t)
        \/ StoreMemo(t)
        \/ Use(t)

SpecConc == InitConc /\ [][NextConc]_vars

(***************************************************************************)
(* Properties of the extractor (under SpecExtract).                        *)
(***************************************************************************)
IndexTuples(shape) == {Unravel(k, shape) : k \in 0..(Prod(shape) - 1)}

\* The coordinate a chunk string spells: the empty string spells the
\* coordinate with no index.
Coordinate(chunk) ==
    IF chunk = <<>> THEN [ok |-> TRUE, ikeys |-> <<>>] ELSE ParseChunkId(chunk)

\* The declared chunk shape of a lazily chunked variable.
ChunkShape(v) == [i \in 1..Len(v.data.chunks) |-> v.data.chunks[i][1]]

\* ikeys is an in-range coordinate of the lazily chunked variable v.
InRange(v, ikeys) ==
    /\ Len(ikeys) = Len(v.data.chunks)
    /\ \A i \in 1..Len(ikeys) : ikeys[i] >= 0 /\ ikeys[i] < Len(v.data.chunks[i])

\* The shape of the block of v at ikeys as the backend materializes it.
OwnShape(v, ikeys) == [i \in 1..Len(ikeys) |-> v.data.chunks[i][ikeys[i] + 1]]

\* c is a get_key call on a lazily chunked variable of dataset "A" at an
\* in-range coordinate that selects a boundary block.
BoundaryCall(c) ==
    /\ c.err # ""
    /\ c.var \in DOMAIN ds["A"].vars
    /\ ds["A"].vars[c.var].data.kind = "dask"
    /\ ParseChunkId(c.chunk).ok
    /\ InRange(ds["A"].vars[c.var], ParseChunkId(c.chunk).ikeys)
    /\ OwnShape(ds["A"].vars[c.var], ParseChunkId(c.chunk).ikeys)
           # ChunkShape(ds["A"].vars[c.var])

\* The block of call c equals the source inside the block's own shape.
LeadingRegionIsSource(c) ==
    LET v == ds["A"].vars[c.var]
        ik == ParseChunkId(c.chunk).ikeys
    IN  \A idx \in IndexTuples(OwnShape(v, ik)) :
            ElemAt(c.block, idx)
                = ElemAt(v.data.values,
                         [i \in 1..Len(ik) |-> ik[i] * ChunkShape(v)[i] + idx[i]])

\* C1: a boundary block of a lazily chunked variable is returned with exactly
\* the declared chunk shape C, its leading region of the materialized block's
\* own shape equals the source data there, and without filters and compressor
\* the payload is product(C) times the element width long.
C1_BoundaryBlockHasChunkShape ==
    \A c \in {call, memo} :
        (BoundaryCall(c) /\ c.backend = "ok") =>
            LET v == ds["A"].vars[c.var]
            IN  /\ c.err = "ok"
                /\ c.block.shape = ChunkShape(v)
                /\ Len(c.block.flat) = Prod(ChunkShape(v))
                /\ LeadingRegionIsSource(c)
                /\ (v.encoding.compressor = "None"
                        /\ v.encoding.filters \in {None, Some(<<>>)})
                    => Len(c.echunk) = Prod(ChunkShape(v)) * ItemSize(v.dtype)

\* 10 elements in chunks of 4, coordinate "2": 4 elements, the first two the
\* source elements 8 and 9, in 8 bytes.
C1_Witness ==
    /\ ds["A"] = DatasetE1
    /\ BoundaryCall(call)
    /\ call.var = "x" /\ call.chunk = <<"2">> /\ call.err = "ok"
    /\ call.block.shape = <<4>>
    /\ call.block.flat[1] = 1008 /\ call.block.flat[2] = 1009
    /\ Len(call.echunk) = 8

\* An earlier and a later successful call for the same boundary block.
SameBoundaryCalls ==
    /\ memo.err = "ok" /\ call.err = "ok"
    /\ memo.var = call.var /\ memo.chunk = call.chunk
    /\ BoundaryCall(call)

\* C2 as stated: two calls for the same boundary block return blocks with
\* identical padding (the elements outside the materialized block's shape).
C2_PaddingIdentical ==
    SameBoundaryCalls =>
        LET v == ds["A"].vars[call.var]
            own == OwnShape(v, ParseChunkId(call.chunk).ikeys)
        IN  \A idx \in IndexTuples(ChunkShape(v)) :
                ~Within(idx, own) => ElemAt(memo.block, idx) = ElemAt(call.block, idx)

\* C2 as amended: two calls for the same boundary block return blocks of the
\* declared chunk shape that agree inside the materialized block's own
\* shape, where both hold the source data; the padding is unspecified.
C2_BlocksAgreeInsideOwnShape ==
    SameBoundaryCalls =>
        LET v == ds["A"].vars[call.var]
            own == OwnShape(v, ParseChunkId(call.chunk).ikeys)
        IN  /\ memo.block.shape = ChunkShape(v)
            /\ call.block.shape = ChunkShape(v)
            /\ \A idx \in IndexTuples(own) :
                   ElemAt(memo.block, idx) = ElemAt(call.block, idx)
            /\ LeadingRegionIsSource(memo)
            /\ LeadingRegionIsSource(call)

\* Two calls for the same boundary block whose paddings differ.
C2_Witness ==
    /\ SameBoundaryCalls
    /\ memo.block # call.block
    /\ memo.echunk # call.echunk

\* c is a get_key call on an unchunked (in-memory) variable of dataset "A".
UnchunkedCall(c) ==
    /\ c.err # ""
    /\ c.var \in DOMAIN ds["A"].vars
    /\ ds["A"].vars[c.var].data.kind = "numpy"

\* The outcome the claim gives an unchunked call: the whole data at the
\* all-zero coordinate, a validation error and no data at any other.
AllZeroOnly(c) ==
    LET v == ds["A"].vars[c.var]
        p == Coordinate(c.chunk)
    IN  IF p.ok /\ p.ikeys = [i \in 1..Len(v.data.values.shape) |-> 0]
        THEN c.err = "ok" /\ c.block = v.data.values
        ELSE c.err = "ValueError" /\ c.echunk = <<>>

\* C3: for an unchunked variable of any number of dimensions, zero included,
\* the all-zero coordinate returns the variable's data in its shape and every
\* other coordinate fails with a validation error and returns no data.
C3_UnchunkedAllZeroOnly ==
    UnchunkedCall(call) => AllZeroOnly(call)

\* The same for the unchunked variables of one dimension or more.
UnchunkedAllZeroOnlyFromOneDimension ==
    (UnchunkedCall(call) /\ Len(ds["A"].vars[call.var].dims) >= 1)
        => AllZeroOnly(call)

(***************************************************************************)
(* Properties of the routes (under Spec).                                  *)
(***************************************************************************)
\* The exported attrs carry the dimension list of v and no fill value.
AttrsExported(attrs, v) ==
    /\ DIMENSION_KEY \in DOMAIN attrs
    /\ attrs[DIMENSION_KEY].v = v.dims
    /\ "_FillValue" \notin DOMAIN attrs

\* C4: after metadata assembly, whatever requests were served, the exported
\* attrs of every variable (in the memoized consolidated metadata, in the
\* consolidated document and in the variable attrs lookup) contain the
\* dimension-list attribute with the variable's dimension order and no
\* fill-value attribute.
C4_ExportedAttrsKeepDimensions ==
    /\ \A d \in DatasetIds :
           _zmetadata[d] # None =>
               \A var \in DOMAIN ds[d].vars :
                   /\ var \in DOMAIN _zmetadata[d][1].metadata.vattrs
                   /\ AttrsExported(_zmetadata[d][1].metadata.vattrs[var],
                                    ds[d].vars[var])
    /\ (resp.op = "zmetadata" /\ resp.body # None) =>
           \A var \in DOMAIN ds[resp.ds].vars :
               AttrsExported(resp.body[1].metadata.vattrs[var], ds[resp.ds].vars[var])
    /\ (resp.op = "chunk" /\ resp.branch = "zattrs" /\ resp.status = "ok") =>
           AttrsExported(resp.body[1], ds[resp.ds].vars[resp.var])

\* The declared chunks of v differ from the block shape of its source (or,
\* for an unchunked variable, from its shape).
ChunkMismatch(v) ==
    /\ v.encoding.chunks # None
    /\ v.encoding.chunks[1]
         # (IF v.data.kind = "dask"
            THEN [i \in 1..Len(v.data.chunks) |-> v.data.chunks[i][1]]
            ELSE v.data.values.shape)

Broken(d) == \E var \in DOMAIN ds[d].vars : ChunkMismatch(ds[d].vars[var])

\* C5: for a dataset with a variable whose declared chunks do not match its
\* source, every request of every kind fails with the validation error of
\* the metadata assembly: no metadata, no payload, no cache access, nothing
\* memoized; the first request and every later one.
C5_BrokenDatasetServesNothing ==
    /\ \A d \in DatasetIds : Broken(d) => _zmetadata[d] = None
    /\ (resp.op # "idle" /\ Broken(resp.ds)) =>
           /\ resp.status = "ValueError"
           /\ resp.body = None
           /\ resp.payload = <<>>
           /\ resp.events = <<>>
           /\ resp.putkey = <<>>

\* A chunk request on a broken dataset fails although another dataset has
\* its chunk of that name in the cache, and after an earlier attempt left
\* encoded variables behind.
C5_Witness ==
    /\ resp.op = "chunk"
    /\ Broken(resp.ds)
    /\ resp.status = "ValueError"
    /\ <<resp.var, "/">> \o resp.chunk \in DOMAIN cache
    /\ _variables[resp.ds] # <<>>

\* C6: a variable lookup returns the array metadata exactly when the chunk
\* string is literally the array-meta-key, the attrs exactly when it is
\* literally the attrs-key, is not found exactly when it is literally the
\* group-meta-key, and is a data-chunk request (cache, extract, encode) for
\* every other string.
C6_ReservedTokensMatchLiterally ==
    (resp.op = "chunk" /\ resp.branch # "") =>
        /\ resp.branch = "zarray" <=> resp.chunk = array_meta_key
        /\ resp.branch = "zattrs" <=> resp.chunk = attrs_key
        /\ resp.status = "HTTP404" <=> resp.chunk = group_meta_key
        /\ resp.chunk \notin {array_meta_key, attrs_key, group_meta_key}
               => (resp.events # <<>> /\ resp.events[1] = "get")

\* The coordinate is malformed or out of range for the lazily chunked v.
BadCoordinate(v, chunk) ==
    \/ ~ParseChunkId(chunk).ok
    \/ ~InRange(v, ParseChunkId(chunk).ikeys)

\* C7: a data-chunk request on a lazily chunked variable with a malformed or
\* out-of-range coordinate fails with a validation error, returns no chunk
\* bytes and creates no cache entry.
C7_BadCoordinateRejected ==
    ( /\ resp.op = "chunk" /\ resp.branch = "data"
      /\ resp.var \in DOMAIN ds[resp.ds].vars
      /\ ds[resp.ds].vars[resp.var].data.kind = "dask"
      /\ BadCoordinate(ds[resp.ds].vars[resp.var], resp.chunk) ) =>
        /\ resp.status \in {"ValueError", "IndexError"}
        /\ resp.payload = <<>>
        /\ resp.putkey = <<>>

\* The payloads get_key can produce for a chunk of dataset d.
OwnPayloads(d, var, chunk) ==
    {get_key(ds[d], acc(d), var, chunk, junk, "ok").echunk :
        junk \in JunkFor(ds[d], var)}

\* A step that serves a request: what it does to the cache.
C9_Step ==
    LET key == <<resp'.var, "/">> \o resp'.chunk
    IN  IF resp.op = "idle" /\ resp'.op = "chunk" /\ resp'.branch = "data"
        THEN IF key \in DOMAIN cache
             THEN /\ resp'.events = <<"get">>
                  /\ resp'.status = "ok"
                  /\ resp'.payload = cache[key]
                  /\ cache' = cache
             ELSE IF resp'.status = "ok"
             THEN /\ resp'.events = <<"get", "get_key", "put">>
                  /\ resp'.putkey = key
                  /\ resp'.putvalue = resp'.payload
                  /\ resp'.putsize = Len(resp'.payload)
                  /\ resp'.payload \in OwnPayloads(resp'.ds, resp'.var, resp'.chunk)
                  /\ \A k \in DOMAIN cache' :
                         \/ k = key /\ cache'[k] = resp'.payload
                         \/ k # key /\ k \in DOMAIN cache /\ cache'[k] = cache[k]
             ELSE /\ resp'.events = <<"get", "get_key">>
                  /\ resp'.payload = <<>>
                  /\ resp'.putkey = <<>>
                  /\ cache' = cache
        ELSE /\ resp'.events = <<>>
             /\ resp'.putkey = <<>>
             /\ cache' = cache

\* C9: the cache is written only by a data-chunk request that missed and
\* whose extraction and encoding completed: get(key), get_key, then one put
\* under the key of (variable, coordinate) with the complete payload and its
\* byte length; a hit returns the stored payload with neither get_key nor
\* put; a failed request and a request for a metadata token put nothing.
C9_CacheWrittenOnlyByCompletedMiss == [][C9_Step]_vars

\* A miss that was extracted, encoded and stored.
C9_Witness ==
    /\ resp.op = "chunk"
    /\ resp.events = <<"get", "get_key", "put">>
    /\ resp.payload # <<>>
    /\ <<resp.var, "/">> \o resp.chunk \in DOMAIN cache
    /\ cache[<<resp.var, "/">> \o resp.chunk] = resp.payload

\* C10: the payload of a chunk request against a dataset is an encoding of
\* that dataset's own chunk at the coordinate, never a payload cached while
\* serving another dataset.
C10_PayloadIsOwnDatasets ==
    (resp.op = "chunk" /\ resp.branch = "data" /\ resp.status = "ok") =>
        resp.payload \in OwnPayloads(resp.ds, resp.var, resp.chunk)

(***************************************************************************)
(* Properties of concurrent first access (under SpecConc).                 *)
(***************************************************************************)
\* What one sequential assembly produces.
Sequential == _get_zmetadata(ds["A"], NewAccessor)

\* The requests that completed did so on the sequentially assembled
\* structure, and once all have, the accessor holds it.
CompletedAsSequential ==
    /\ \A t \in Threads :
           thr[t].pc = "done" =>
               /\ thr[t].err # "KeyError"
               /\ thr[t].op = "zmetadata" =>
                      /\ thr[t].err = "ok"
                      /\ thr[t].doc = Some(ConfigCompressors(Sequential.zmeta))
    /\ (\A t \in Threads : thr[t].pc = "done") =>
           /\ _zmetadata["A"] = Some(Sequential.zmeta)
           /\ _variables["A"] = Sequential.acc.variables
           /\ _encoding["A"] = Sequential.acc.encoding

\* C8: requests that interleave while the memoized metadata is unset each
\* complete with the consolidated metadata of a sequential assembly, none
\* reads a partially assembled structure, and once all have completed the
\* memoized structure and the encoded-variable tables equal those of the
\* sequential assembly.
C8_ConcurrentFirstAccessSafe ==
    (\A t \in Threads : thr[t].pc # "idle" => thr[t].unset)
        => CompletedAsSequential

\* The same when none of the interleaved requests is an info request.
FirstAccessSafeWithoutInfo ==
    (\A t \in Threads : thr[t].pc # "idle" => (thr[t].unset /\ thr[t].op # "info"))
        => CompletedAsSequential

====
